---- MODULE Spec2Model ----
(***************************************************************************)
(* hoard: configuration loading (src/src/config.rs) and the render step of *)
(* the command list GUI (src/src/gui/list_search/render.rs).               *)
(*                                                                         *)
(* A Rust String is a sequence of one-character strings, a PathBuf is a    *)
(* record [abs, comps] of its components (PathBuf equality is equality of  *)
(* components), Option<T> is a sequence of at most one value and           *)
(* Result<T, E> a record [ok, val].                                        *)
(***************************************************************************)
EXTENDS Integers, Sequences, FiniteSets, TLC

VARIABLES
    env,        \* value of the HOARD_CONFIG environment variable
    home,       \* dirs::home_dir(): Option<String>
    pathCall,   \* the last call of get_hoard_config_path and what it returned
    dirs,       \* the directories that exist
    fs,         \* the files that exist: path -> content
    cwdTrove,   \* whether trove.yml exists in the current directory
    config,     \* the HoardConfig the program holds: Option<HoardConfig>
    loadCall,   \* the last call into config.rs that touches the file system
    app,        \* the State of the command list GUI
    drawn       \* the last call of draw: the State it got and the frame it made

\* ------------------------------------------------------------------ bounds

\* longest value of HOARD_CONFIG that is enumerated
MaxEnvLen == 4
\* longest command list that is drawn
MaxCmds == 2

\* ------------------------------------------------------- Option and Result

\* Option<T>: the empty sequence is None, <<v>> is Some(v)
None == <<>>
Some(v) == <<v>>
IsSome(o) == o # <<>>
Unwrap(o) == o[1]

Err == [ok |-> FALSE]
Ok(v) == [ok |-> TRUE, val |-> v]

\* ---------------------------------------------------------------- strings

\* the characters HOARD_CONFIG is built from
EnvChars == {"/", ".", "~", "$", "a", "b"}

RECURSIVE StringsUpTo(_)
StringsUpTo(n) ==
    IF n = 0 THEN {<<>>}
    ELSE LET shorter == StringsUpTo(n - 1)
         IN  shorter \cup {Append(s, c) : s \in {t \in shorter : Len(t) = n - 1}, c \in EnvChars}

\* characters that can not be part of a variable name
Punct == {"/", ".", "~", "$", "#", "!", "@"}
IsNameChar(c) == c \notin Punct

DEFAULT_HOARD_HOMEDIR == <<".", "c", "o", "n", "f", "i", "g", "/", "h", "o", "a", "r", "d">>
DEFAULT_HOARD_FILE == <<"t", "r", "o", "v", "e", ".", "y", "m", "l">>
DEFAULT_HOARD_CONFIG_FILE == <<"c", "o", "n", "f", "i", "g", ".", "y", "m", "l">>

\* ------------------------------------------------------------------ paths

\* the pieces of s between its "/" separators, empty pieces included
RECURSIVE Split(_, _)
Split(s, cur) ==
    IF s = <<>> THEN <<cur>>
    ELSE IF Head(s) = "/" THEN <<cur>> \o Split(Tail(s), <<>>)
    ELSE Split(Tail(s), Append(cur, Head(s)))

\* Path::components: repeated separators, a trailing separator and every "."
\* but a leading one are dropped
RECURSIVE Comps(_, _)
Comps(ps, i) ==
    IF i > Len(ps) THEN <<>>
    ELSE (IF ps[i] # <<>> /\ (ps[i] # <<".">> \/ i = 1) THEN <<ps[i]>> ELSE <<>>)
         \o Comps(ps, i + 1)

\* PathBuf::from
PathFrom(s) ==
    [abs |-> s # <<>> /\ Head(s) = "/", comps |-> Comps(Split(s, <<>>), 1)]

\* Path::to_str of a path built from a normalised string
RECURSIVE JoinComps(_)
JoinComps(cs) ==
    IF cs = <<>> THEN <<>>
    ELSE IF Len(cs) = 1 THEN cs[1]
    ELSE cs[1] \o <<"/">> \o JoinComps(Tail(cs))

ToStr(p) == (IF p.abs THEN <<"/">> ELSE <<>>) \o JoinComps(p.comps)

\* Path::file_name: the last component unless it is ".." or "."
FileName(p) ==
    IF p.comps = <<>> THEN None
    ELSE LET l == p.comps[Len(p.comps)]
         IN  IF l = <<".", ".">> \/ l = <<".">> THEN None ELSE Some(l)

\* Path::extension: what follows the last "." of the file name, unless the
\* file name has no "." or only a leading one
Extension(p) ==
    IF ~IsSome(FileName(p)) THEN None
    ELSE LET f == Unwrap(FileName(p))
             dots == {i \in 1..Len(f) : f[i] = "."}
         IN  IF dots = {} THEN None
             ELSE LET d == CHOOSE i \in dots : \A j \in dots : j <= i
                  IN  IF d = 1 THEN None ELSE Some(SubSeq(f, d + 1, Len(f)))

\* Path::parent: the path without its last component; none for the root and
\* for the empty path
Parent(p) ==
    IF p.comps = <<>> THEN None
    ELSE Some([abs |-> p.abs, comps |-> SubSeq(p.comps, 1, Len(p.comps) - 1)])

\* Path::join
Join(p, q) ==
    IF q.abs THEN q
    ELSE IF (p.abs \/ p.comps # <<>>) /\ q.comps # <<>> /\ q.comps[1] = <<".">>
    THEN [abs |-> p.abs, comps |-> p.comps \o Tail(q.comps)]
    ELSE [abs |-> p.abs, comps |-> p.comps \o q.comps]

\* -------------------------------------------------------- shell expansion

\* the process environment seen by shellexpand: $a is set to the empty
\* string, $b to "/b", every other variable is unset
LookupVar(name) ==
    IF name = <<"a">> THEN Some(<<>>)
    ELSE IF name = <<"b">> THEN Some(<<"/", "b">>)
    ELSE None

\* the longest prefix of s that is a variable name
RECURSIVE TakeName(_)
TakeName(s) ==
    IF s = <<>> \/ ~IsNameChar(Head(s)) THEN <<>>
    ELSE <<Head(s)>> \o TakeName(Tail(s))

\* shellexpand's variable expansion: $NAME is replaced by its value, an unset
\* variable is an error, a "$" that starts no name stays
RECURSIVE ExpandEnv(_)
ExpandEnv(s) ==
    IF s = <<>> THEN Ok(<<>>)
    ELSE IF Head(s) = "$" /\ TakeName(Tail(s)) # <<>>
    THEN LET name == TakeName(Tail(s))
             rest == ExpandEnv(SubSeq(s, Len(name) + 2, Len(s)))
         IN  IF ~IsSome(LookupVar(name)) \/ ~rest.ok THEN Err
             ELSE Ok(Unwrap(LookupVar(name)) \o rest.val)
    ELSE LET rest == ExpandEnv(Tail(s))
         IN  IF rest.ok THEN Ok(<<Head(s)>> \o rest.val) ELSE Err

\* shellexpand's tilde expansion: a leading "~" alone or before "/" becomes
\* the home directory, when there is one
ExpandTilde(s, h) ==
    IF s # <<>> /\ Head(s) = "~" /\ (Len(s) = 1 \/ s[2] = "/") /\ IsSome(h)
    THEN Unwrap(h) \o Tail(s)
    ELSE s

\* shellexpand::full: variables first, then the tilde of the input
full(s, h) ==
    LET e == ExpandEnv(s)
    IN  IF ~e.ok THEN Err
        ELSE IF s # <<>> /\ Head(s) = "~" THEN Ok(ExpandTilde(e.val, h))
        ELSE e

\* ------------------------------------------------- get_hoard_config_path

Unset == [set |-> FALSE, unicode |-> TRUE, val |-> <<>>]
NotUnicode == [set |-> TRUE, unicode |-> FALSE, val |-> <<>>]
SetTo(s) == [set |-> TRUE, unicode |-> TRUE, val |-> s]

\* env::var(ENV_HOARD_CONFIG_PATH)
EnvVar(e) == IF e.set /\ e.unicode THEN Ok(e.val) ELSE Err

\* FileOrDir with the extension test lost: every path is taken for a directory
FileOrDirAlwaysDir(p) == Join(p, PathFrom(DEFAULT_HOARD_CONFIG_FILE))

\* the path named by HOARD_CONFIG: the path itself when it has an extension,
\* the path joined with config.yml when it has none
FileOrDir(p) ==
    IF IsSome(Extension(p)) /\ IsSome(FileName(p)) /\ IsSome(Parent(p))
    THEN Join(Unwrap(Parent(p)), PathFrom(Unwrap(FileName(p))))
    ELSE Join(p, PathFrom(DEFAULT_HOARD_CONFIG_FILE))

\* the default path under the home directory
DefaultConfigPath(h) ==
    IF ~IsSome(h) THEN Err
    ELSE Ok(Join(Join(PathFrom(Unwrap(h)), PathFrom(DEFAULT_HOARD_HOMEDIR)),
                 PathFrom(DEFAULT_HOARD_CONFIG_FILE)))

\* whether HOARD_CONFIG is usable: set, unicode, expandable and not empty
\* once expanded
Expanded(e, h) ==
    IF ~EnvVar(e).ok THEN Err
    ELSE LET x == full(EnvVar(e).val, h)
         IN  IF ~x.ok \/ x.val = <<>> THEN Err ELSE x

get_hoard_config_path(e, h) ==
    IF Expanded(e, h).ok THEN Ok(FileOrDir(PathFrom(Expanded(e, h).val)))
    ELSE DefaultConfigPath(h)

\* ------------------------------------------------------------ HoardConfig

VERSION == "CARGO_PKG_VERSION"

default_parameter_token == "#"
default_ending_parameter_token == "!"
default_sync_server_url == "https://troveserver.herokuapp.com/"
default_read_from_current_directory == TRUE
default_colors(color_level) ==
    CASE color_level = 0 -> <<242, 229, 188>>
      [] color_level = 1 -> <<181, 118, 20>>
      [] color_level = 2 -> <<50, 48, 47>>
      [] OTHER -> <<180, 118, 20>>

\* impl Default for HoardConfig
HoardConfigDefault ==
    [version |-> VERSION,
     default_namespace |-> "default",
     trove_path |-> None,
     query_prefix |-> "  >",
     primary_color |-> Some(default_colors(0)),
     secondary_color |-> Some(default_colors(1)),
     tertiary_color |-> Some(default_colors(2)),
     command_color |-> Some(default_colors(3)),
     parameter_token |-> Some(default_parameter_token),
     parameter_ending_token |-> Some(default_ending_parameter_token),
     read_from_current_directory |-> Some(default_read_from_current_directory),
     sync_server_url |-> Some(default_sync_server_url),
     api_token |-> None,
     gpt_api_key |-> None]

\* HoardConfig::new
HoardConfigNew(hoard_home_path) ==
    [HoardConfigDefault EXCEPT
        !.trove_path = Some(Join(hoard_home_path, PathFrom(DEFAULT_HOARD_FILE)))]

\* ------------------------------------------------------------ config file

\* serde_yaml::to_string: the document of a config; a path is written as its
\* string
Serialize(c) ==
    [c EXCEPT !.trove_path = IF IsSome(@) THEN Some(ToStr(Unwrap(@))) ELSE None]

\* a file is a HoardConfig document or something that does not parse as one
Garbage == [parses |-> FALSE]
FileOf(doc) == [parses |-> TRUE, doc |-> doc]

\* serde_yaml::from_reader::<_, HoardConfig>: a path is read from its string
from_reader(content) ==
    IF content.parses
    THEN Ok([content.doc EXCEPT
                !.trove_path = IF IsSome(@) THEN Some(PathFrom(Unwrap(@))) ELSE None])
    ELSE Err

\* the directory p and every directory above it
Ancestors(p) == {[abs |-> p.abs, comps |-> SubSeq(p.comps, 1, k)] : k \in 0..Len(p.comps)}

WriteFile(files, p, content) ==
    [q \in DOMAIN files \cup {p} |-> IF q = p THEN content ELSE files[q]]

\* save_config: fs::write fails, and the expect panics, when the directory
\* of the file does not exist
save_config(config_to_save, config_path, files, ds) ==
    IF IsSome(Parent(config_path)) /\ Unwrap(Parent(config_path)) \in ds
    THEN [ok |-> TRUE, fs |-> WriteFile(files, config_path, FileOf(Serialize(config_to_save)))]
    ELSE [ok |-> FALSE, fs |-> files]

\* ------------------------------ append_missing_default_values_to_config

\* the if / else-if chain: the first missing field is set, is_config_dirty
\* tells whether one was
FillMissing(c, hoard_dir) ==
    IF ~IsSome(c.primary_color)
    THEN [config |-> [c EXCEPT !.primary_color = Some(default_colors(0))], dirty |-> TRUE]
    ELSE IF ~IsSome(c.secondary_color)
    THEN [config |-> [c EXCEPT !.secondary_color = Some(default_colors(1))], dirty |-> TRUE]
    ELSE IF ~IsSome(c.tertiary_color)
    THEN [config |-> [c EXCEPT !.tertiary_color = Some(default_colors(2))], dirty |-> TRUE]
    ELSE IF ~IsSome(c.command_color)
    THEN [config |-> [c EXCEPT !.command_color = Some(default_colors(3))], dirty |-> TRUE]
    ELSE IF ~IsSome(c.trove_path)
    THEN [config |-> [c EXCEPT !.trove_path = Some(Join(hoard_dir, PathFrom(DEFAULT_HOARD_FILE)))],
          dirty |-> TRUE]
    ELSE IF ~IsSome(c.parameter_token)
    THEN [config |-> [c EXCEPT !.parameter_token = Some(default_parameter_token)], dirty |-> TRUE]
    ELSE IF ~IsSome(c.parameter_ending_token)
    THEN [config |-> [c EXCEPT !.parameter_ending_token = Some(default_ending_parameter_token)],
          dirty |-> TRUE]
    ELSE IF ~IsSome(c.read_from_current_directory)
    THEN [config |-> [c EXCEPT !.read_from_current_directory = Some(FALSE)], dirty |-> TRUE]
    ELSE IF ~IsSome(c.sync_server_url)
    THEN [config |-> [c EXCEPT !.sync_server_url = Some(default_sync_server_url)], dirty |-> TRUE]
    ELSE [config |-> c, dirty |-> FALSE]

\* append_missing_default_values_to_config with the save lost
AppendMissingNoSave(loaded_config, hoard_dir, hoard_config_path, files, ds) ==
    [config |-> FillMissing(loaded_config, hoard_dir).config, ok |-> TRUE, fs |-> files]

\* the config with its first missing field set, saved when a field was set
append_missing_default_values_to_config(loaded_config, hoard_dir, hoard_config_path, files, ds) ==
    LET f == FillMissing(loaded_config, hoard_dir)
        w == save_config(f.config, hoard_config_path, files, ds)
    IN  IF f.dirty
        THEN [config |-> f.config, ok |-> w.ok, fs |-> w.fs]
        ELSE [config |-> f.config, ok |-> TRUE, fs |-> files]

\* --------------------------------------------------- load_or_build_config

\* the sanity check dropped
SanityCheckDropped(c) == TRUE

\* the sanity check of the loaded config: the assertion of line 138
SanityCheck(c) == c.parameter_token # c.parameter_ending_token

\* the trove.yml of the current directory replaces the configured trove when
\* the flag is set and the file exists; the flag is unwrapped by the caller
LocalOverride(c, cwd) ==
    IF Unwrap(c.read_from_current_directory) /\ cwd
    THEN [c EXCEPT !.trove_path = Some(PathFrom(DEFAULT_HOARD_FILE))]
    ELSE c

\* the trove path shell-expanded; none when it does not expand
ExpandTrovePath(c, h) ==
    [c EXCEPT !.trove_path =
        IF IsSome(@) /\ full(ToStr(Unwrap(@)), h).ok
        THEN Some(PathFrom(full(ToStr(Unwrap(@)), h).val))
        ELSE None]

Failed(kind, why, files, ds) ==
    [outcome |-> kind, reason |-> why, ret |-> None, fs |-> files, dirs |-> ds]

\* the branch of an existing config file
LoadExisting(hoard_dir, hoard_config_path, files, ds, h, cwd) ==
    LET parsed == from_reader(files[hoard_config_path])
    IN  IF ~parsed.ok THEN Failed("err", "parse", files, ds)
        ELSE
        LET a == append_missing_default_values_to_config(
                     parsed.val, hoard_dir, hoard_config_path, files, ds)
        IN  IF ~a.ok THEN Failed("panic", "write", a.fs, ds)
            ELSE IF ~IsSome(a.config.read_from_current_directory)
            THEN Failed("panic", "unwrap", a.fs, ds)
            ELSE IF ~SanityCheck(LocalOverride(a.config, cwd))
            THEN Failed("panic", "collision", a.fs, ds)
            ELSE [outcome |-> "ok", reason |-> "loaded",
                  ret |-> Some(ExpandTrovePath(LocalOverride(a.config, cwd), h)),
                  fs |-> a.fs, dirs |-> ds]

\* the branch of a missing config file; namespace is what prompt_input
\* returns (the default in a test build)
BuildNew(hoard_dir, hoard_config_path, files, ds, namespace) ==
    LET new_config == [HoardConfigNew(hoard_dir) EXCEPT !.default_namespace = namespace]
        w == save_config(new_config, hoard_config_path, files, ds)
    IN  IF ~w.ok THEN Failed("panic", "write", files, ds)
        ELSE [outcome |-> "ok", reason |-> "built", ret |-> Some(new_config),
              fs |-> w.fs, dirs |-> ds]

\* load_or_build_config; createOk tells whether fs::create_dir_all succeeds
load_or_build_config(e, h, files, ds, cwd, createOk, namespace) ==
    LET pr == get_hoard_config_path(e, h)
    IN  IF ~pr.ok THEN Failed("err", "path", files, ds)
        ELSE IF ~IsSome(Parent(pr.val)) THEN Failed("err", "parent", files, ds)
        ELSE
        LET hoard_dir == Unwrap(Parent(pr.val))
            ds1 == IF hoard_dir \in ds THEN ds ELSE ds \cup Ancestors(hoard_dir)
        IN  IF hoard_dir \notin ds /\ ~createOk THEN Failed("err", "mkdir", files, ds)
            ELSE IF pr.val \in DOMAIN files
            THEN LoadExisting(hoard_dir, pr.val, files, ds1, h, cwd)
            ELSE BuildNew(hoard_dir, pr.val, files, ds1, namespace)

\* ---------------------------------------------------- save_parameter_token

\* the token is not set in the copy that is saved
SaveParameterTokenKeepsToken(c, config_path, parameter_token, files, ds) ==
    LET w == save_config(c, Join(config_path, PathFrom(DEFAULT_HOARD_CONFIG_FILE)), files, ds)
    IN  [outcome |-> IF w.ok THEN "true" ELSE "panic", fs |-> w.fs]

\* save_parameter_token: serialisation does not fail, so the call returns true
\* or panics in save_config
save_parameter_token(c, config_path, parameter_token, files, ds) ==
    LET new_config == [c EXCEPT !.parameter_token = Some(parameter_token)]
        path_buf == Join(config_path, PathFrom(DEFAULT_HOARD_CONFIG_FILE))
        w == save_config(new_config, path_buf, files, ds)
    IN  [outcome |-> IF w.ok THEN "true" ELSE "panic", fs |-> w.fs]

\* ------------------------------------------------------------- render.rs

\* HoardCmd::default(): every field empty
HoardCmdDefault == [name |-> "", command |-> "", tags |-> "", description |-> ""]

\* HoardCmd::get_tags_as_string: the tags as one string
get_tags_as_string(c) == c.tags

Rgb(color) == [r |-> color[1], g |-> color[2], b |-> color[3]]

\* get_color with the comparison lost: nothing is highlighted
GetColorNeverHighlights(a, c, command_render) == Rgb(Unwrap(c.primary_color))

get_color(a, c, command_render) ==
    LET highlighted == Rgb(Unwrap(c.secondary_color))
        normal == Rgb(Unwrap(c.primary_color))
    IN  IF a.control \in {"Search", "Gpt", "KeyNotSet"} THEN normal
        ELSE IF command_render = a.edit_selection THEN highlighted
        ELSE normal

coerce_string_by_mode(str, a, command_render) ==
    IF a.control \in {"Search", "Gpt", "KeyNotSet"} THEN str
    ELSE IF command_render = a.edit_selection THEN a.string_to_edit
    ELSE str

\* commands_list.get(selected).get_or_insert(&HoardCmd::default()).clone();
\* indices count from 0
SelectedCommand(commands_list, a) ==
    IF Unwrap(a.command_list) < Len(commands_list)
    THEN commands_list[Unwrap(a.command_list) + 1]
    ELSE HoardCmdDefault

\* the selection is moved whatever is selected
NeedsReselectAlways(selected_command) == TRUE

\* the test of line 279
NeedsReselect(selected_command) == selected_command.name = ""

\* the new selection one past the last element
NewSelectionPastEnd(commands_list) == Len(commands_list)

\* the new selection of lines 281-285
NewSelection(commands_list) ==
    IF commands_list = <<>> THEN 0 ELSE Len(commands_list) - 1

\* render_commands: the State as it leaves it and the five widgets; the
\* caller has checked that a command is selected and the colors are set
render_commands(commands_list, a, c) ==
    LET selected_command == SelectedCommand(commands_list, a)
        a1 == IF NeedsReselect(selected_command)
              THEN [a EXCEPT !.command_list = Some(NewSelection(commands_list))]
              ELSE a
    IN  [app |-> a1,
         list |-> [color |-> get_color(a, c, "Name"),
                   items |-> [i \in 1..Len(commands_list) |-> commands_list[i].name]],
         command |-> [color |-> get_color(a1, c, "Command"),
                      text |-> coerce_string_by_mode(selected_command.command, a1, "Command")],
         tags |-> [color |-> get_color(a1, c, "Tags"),
                   text |-> coerce_string_by_mode(get_tags_as_string(selected_command), a1, "Tags")],
         description |-> [color |-> get_color(a1, c, "Description"),
                          text |-> coerce_string_by_mode(selected_command.description, a1,
                                                         "Description")],
         input |-> <<c.query_prefix, a1.input>>]

NoFrame == [drawn |-> FALSE]

\* get_footer_constraints
get_footer_constraints(control) ==
    IF control \in {"Search", "Gpt", "KeyNotSet"} THEN <<50, 50>> ELSE <<99, 1>>

\* the closure of draw: it panics on an unset color or selection, before
\* render_commands for the primary and secondary colors and the selections,
\* after the selection was moved for the tertiary color
DrawClosure(a, c, namespace_tabs) ==
    IF \/ ~IsSome(c.primary_color) \/ ~IsSome(c.secondary_color)
       \/ ~IsSome(a.namespace_tab) \/ ~IsSome(a.command_list)
    THEN [outcome |-> "panic", app |-> a, frame |-> NoFrame]
    ELSE LET w == render_commands(a.commands, a, c)
         IN  IF ~IsSome(c.tertiary_color)
             THEN [outcome |-> "panic", app |-> w.app, frame |-> NoFrame]
             ELSE [outcome |-> "ok",
                   app |-> w.app,
                   frame |-> [drawn |-> TRUE,
                              tabs |-> [titles |-> namespace_tabs,
                                        selected |-> Unwrap(a.namespace_tab)],
                              list |-> [color |-> w.list.color, items |-> w.list.items,
                                        selected |-> w.app.command_list],
                              command |-> w.command,
                              tags |-> w.tags,
                              description |-> w.description,
                              input |-> w.input,
                              footer |-> [constraints |-> get_footer_constraints(w.app.control),
                                          control |-> w.app.control,
                                          help |-> w.app.control = "Search"],
                              popup |-> IF w.app.query_gpt
                                        THEN Some([key_set |-> w.app.openai_key_set,
                                                   color |-> get_color(w.app, c, "Description")])
                                        ELSE None]]

\* draw: terminal.draw fails before the closure runs (io = "resize"), after
\* it ran (io = "flush"), or not at all
draw(a, c, namespace_tabs, io) ==
    IF io = "resize" THEN [outcome |-> "err", app |-> a, frame |-> NoFrame]
    ELSE LET d == DrawClosure(a, c, namespace_tabs)
         IN  IF d.outcome = "ok" /\ io = "flush"
             THEN [outcome |-> "err", app |-> d.app, frame |-> NoFrame]
             ELSE d

\* ---------------------------------------------------------- environments

Homes == {None, Some(<<"/", "h">>)}
EnvValues == {Unset, NotUnicode} \cup {SetTo(s) : s \in StringsUpTo(MaxEnvLen)}

Idle == [state |-> "idle"]
NoCall == [op |-> "none"]
NoFiles == [q \in {} |-> Garbage]
\* the root and the current directory
BaseDirs == {[abs |-> TRUE, comps |-> <<>>], [abs |-> FALSE, comps |-> <<>>]}

\* the config files found at start: every combination of present and missing
\* optional fields
TrovePaths == {None, Some(<<"/", "t">>), Some(<<"~", "/", "t">>), Some(<<"$", "c">>)}
Tokens == {None, Some(""), Some("#"), Some("!")}
Docs ==
    [version : {VERSION},
     default_namespace : {"default"},
     trove_path : TrovePaths,
     query_prefix : {"  >"},
     primary_color : {None, Some(default_colors(0))},
     secondary_color : {None, Some(default_colors(1))},
     tertiary_color : {None, Some(default_colors(2))},
     command_color : {None, Some(default_colors(3))},
     parameter_token : Tokens,
     parameter_ending_token : Tokens,
     read_from_current_directory : {None, Some(TRUE), Some(FALSE)},
     sync_server_url : {None, Some(default_sync_server_url)},
     api_token : {None},
     gpt_api_key : {None}]
FileContents == {Garbage} \cup {FileOf(d) : d \in Docs}

\* HOARD_CONFIG and the home directory of the runs that load: the default
\* location, no location at all, and a file of its own name
LoadEnvs ==
    {<<Unset, Some(<<"/", "h">>)>>, <<Unset, None>>,
     <<SetTo(<<"/", "c", "/", "m", ".", "y">>), Some(<<"/", "h">>)>>}
\* what prompt_input may return
Namespaces == {"default", "work"}
\* the tokens save_parameter_token is called with
SaveTokens == {"@", "!"}

\* the commands that are listed; one has an empty name
Cmds ==
    {[name |-> "a", command |-> "ca", tags |-> "ta", description |-> "da"],
     [name |-> "b", command |-> "cb", tags |-> "", description |-> ""],
     [name |-> "", command |-> "cc", tags |-> "tc", description |-> "dc"]}
RECURSIVE ListsUpTo(_)
ListsUpTo(n) ==
    IF n = 0 THEN {<<>>}
    ELSE LET shorter == ListsUpTo(n - 1)
         IN  shorter \cup {Append(l, c) : l \in {t \in shorter : Len(t) = n - 1}, c \in Cmds}
ControlStates == {"Search", "Edit", "Gpt", "KeyNotSet"}
EditSelections == {"Name", "Command", "Tags", "Description"}
NamespaceTabs == <<"All", "default">>
\* the configs draw is called with: the default one, and one without the
\* tertiary color
RenderConfigs == {HoardConfigDefault, [HoardConfigDefault EXCEPT !.tertiary_color = None]}
States ==
    [control : ControlStates,
     edit_selection : EditSelections,
     string_to_edit : {"", "buf"},
     input : {"q"},
     commands : ListsUpTo(MaxCmds),
     command_list : {None} \cup {Some(i) : i \in 0..MaxCmds},
     namespace_tab : {Some(i) : i \in 0..(Len(NamespaceTabs) - 1)},
     query_gpt : BOOLEAN,
     openai_key_set : BOOLEAN]
NoApp == [control |-> "none"]
NoDraw == [outcome |-> "none"]

envVars == <<env, home>>
loadVars == <<dirs, fs, cwdTrove, config, loadCall>>
renderVars == <<app, drawn>>
vars == <<env, home, pathCall, dirs, fs, cwdTrove, config, loadCall, app, drawn>>

\* ------------------------------------------------------------ path spec

\* env::set_var("HOARD_CONFIG", v) of a variable that is not set, and
\* env::remove_var("HOARD_CONFIG")
SetVar ==
    /\ ~env.set
    /\ \E v \in EnvValues \ {Unset} : env' = v
    /\ pathCall' = Idle
    /\ UNCHANGED <<home, loadVars, renderVars>>

RemoveVar ==
    /\ env.set
    /\ env' = Unset
    /\ pathCall' = Idle
    /\ UNCHANGED <<home, loadVars, renderVars>>

CallGetHoardConfigPath ==
    /\ pathCall = Idle
    /\ pathCall' = [state |-> "done", res |-> get_hoard_config_path(env, home)]
    /\ UNCHANGED <<envVars, loadVars, renderVars>>

LoadIdle ==
    /\ dirs = BaseDirs
    /\ fs = NoFiles
    /\ cwdTrove = FALSE
    /\ config = None
    /\ loadCall = NoCall

RenderIdle ==
    /\ app = NoApp
    /\ drawn = NoDraw

InitPath ==
    /\ env \in EnvValues
    /\ home \in Homes
    /\ pathCall = Idle
    /\ LoadIdle
    /\ RenderIdle

NextPath == SetVar \/ RemoveVar \/ CallGetHoardConfigPath

SpecPath == InitPath /\ [][NextPath]_vars

\* ------------------------------------------------------------ load spec

\* the program starts in some environment: a config file of any content at
\* the resolved location, or none, with or without its directory
InitLoad ==
    /\ \E e \in LoadEnvs : env = e[1] /\ home = e[2]
    /\ cwdTrove \in BOOLEAN
    /\ pathCall = Idle
    /\ config = None
    /\ loadCall = NoCall
    /\ RenderIdle
    /\ \E pr \in {get_hoard_config_path(env, home)} :
           IF pr.ok
           THEN \/ /\ fs = NoFiles
                   /\ dirs \in {BaseDirs, BaseDirs \cup Ancestors(Unwrap(Parent(pr.val)))}
                \/ /\ \E c \in FileContents : fs = WriteFile(NoFiles, pr.val, c)
                   /\ dirs = BaseDirs \cup Ancestors(Unwrap(Parent(pr.val)))
           ELSE fs = NoFiles /\ dirs = BaseDirs

CallLoadOrBuildConfig ==
    \E pr \in {get_hoard_config_path(env, home)} :
    \E createOk \in (IF pr.ok /\ Unwrap(Parent(pr.val)) \notin dirs THEN BOOLEAN ELSE {TRUE}),
       namespace \in (IF pr.ok /\ pr.val \notin DOMAIN fs THEN Namespaces ELSE {"default"}) :
    \E r \in {load_or_build_config(env, home, fs, dirs, cwdTrove, createOk, namespace)} :
        /\ fs' = r.fs
        /\ dirs' = r.dirs
        /\ config' = r.ret
        /\ loadCall' = [op |-> "load",
                        path |-> IF pr.ok THEN Some(pr.val) ELSE None,
                        before |-> IF pr.ok /\ pr.val \in DOMAIN fs
                                   THEN Some(fs[pr.val]) ELSE None,
                        outcome |-> r.outcome,
                        reason |-> r.reason,
                        ret |-> r.ret]
        /\ UNCHANGED <<envVars, pathCall, cwdTrove, renderVars>>

\* save_parameter_token called as the program and its test call it: with the
\* config directory, and the config the program holds or else a new one
CallSaveParameterToken ==
    \E pr \in {get_hoard_config_path(env, home)} :
        /\ pr.ok
        /\ \E dir \in {Unwrap(Parent(pr.val))}, t \in SaveTokens :
           \E given \in {IF IsSome(config) THEN Unwrap(config) ELSE HoardConfigNew(dir)} :
           \E r \in {save_parameter_token(given, dir, t, fs, dirs)} :
               /\ fs' = r.fs
               /\ loadCall' = [op |-> "save", dir |-> dir, token |-> t, given |-> given,
                               held |-> config, outcome |-> r.outcome]
               /\ UNCHANGED <<envVars, pathCall, dirs, cwdTrove, config, renderVars>>

NextLoad == CallLoadOrBuildConfig \/ CallSaveParameterToken

SpecLoad == InitLoad /\ [][NextLoad]_vars

\* ---------------------------------------------------------- render spec

\* the event loop hands draw a State and the loaded config
InitRender ==
    /\ env = Unset
    /\ home = None
    /\ pathCall = Idle
    /\ dirs = BaseDirs
    /\ fs = NoFiles
    /\ cwdTrove = FALSE
    /\ loadCall = NoCall
    /\ config \in {Some(c) : c \in RenderConfigs}
    /\ app \in States
    /\ drawn = NoDraw

CallDraw ==
    \E io \in {"none", "resize", "flush"} :
    \E d \in {draw(app, Unwrap(config), NamespaceTabs, io)} :
        /\ app' = d.app
        /\ drawn' = [outcome |-> d.outcome, io |-> io, pre |-> app, frame |-> d.frame]
        /\ UNCHANGED <<envVars, pathCall, loadVars>>

NextRender == CallDraw

SpecRender == InitRender /\ [][NextRender]_vars

\* ------------------------------------------------- load_or_build_config

LoadDone == loadCall.op = "load"
LoadOk == LoadDone /\ loadCall.outcome = "ok"
Ret == Unwrap(loadCall.ret)
\* the call found a config file that parses
FoundDoc == LoadDone /\ IsSome(loadCall.before) /\ Unwrap(loadCall.before).parses
BeforeDoc == Unwrap(loadCall.before).doc
LoadPath == Unwrap(loadCall.path)
\* the config file as it deserializes after the call
Persisted == from_reader(fs[LoadPath]).val

BothConfiguredEqual(doc) ==
    /\ IsSome(doc.parameter_token)
    /\ Unwrap(doc.parameter_token) # ""
    /\ doc.parameter_token = doc.parameter_ending_token

C2_AsStated ==
    (LoadDone /\ loadCall.reason = "collision")
        => (FoundDoc /\ BothConfiguredEqual(BeforeDoc))

\* C5 as stated: a returned config equals the config the file at the resolved
\* path deserializes to, and a missing file is created with the defaults.
C5_AsStated ==
    LoadOk =>
        /\ LoadPath \in DOMAIN fs
        /\ from_reader(fs[LoadPath]) = Ok(Ret)

\* the nine fields other than trove_path agree, and so do the rest
SameButTrovePath(c, d) == [c EXCEPT !.trove_path = None] = [d EXCEPT !.trove_path = None]

\* C5 amended: a returned config equals the config the file at the resolved
\* path deserializes to in every field but trove_path, and in trove_path too
\* unless the local override applies or shell expansion changes the path;
\* when no config file existed the file holds the defaults (trove_path =
\* <config dir>/trove.yml, delimiters # and !) and equals the returned config.
C5_Amended ==
    LoadOk =>
        /\ LoadPath \in DOMAIN fs
        /\ from_reader(fs[LoadPath]).ok
        /\ SameButTrovePath(Persisted, Ret)
        /\ \/ Ret.trove_path = Persisted.trove_path
           \/ /\ loadCall.before # None
              /\ \/ Ret.read_from_current_directory = Some(TRUE) /\ cwdTrove
                 \/ /\ IsSome(Persisted.trove_path)
                    /\ full(ToStr(Unwrap(Persisted.trove_path)), home)
                          # Ok(ToStr(Unwrap(Persisted.trove_path)))
        /\ loadCall.before = None =>
              /\ Persisted = Ret
              /\ Ret.trove_path
                    = Some([Unwrap(Parent(LoadPath)) EXCEPT !.comps = @ \o <<DEFAULT_HOARD_FILE>>])
              /\ Ret.parameter_token = Some("#")
              /\ Ret.parameter_ending_token = Some("!")

\* a load that filled a field, rewrote the file and returned a trove path
\* other than the persisted one
C5_Witness ==
    /\ LoadOk /\ FoundDoc
    /\ fs[LoadPath] # Unwrap(loadCall.before)
    /\ Ret.trove_path # Persisted.trove_path

AllSet(c) ==
    /\ IsSome(c.primary_color) /\ IsSome(c.secondary_color)
    /\ IsSome(c.tertiary_color) /\ IsSome(c.command_color)
    /\ IsSome(c.trove_path)
    /\ IsSome(c.parameter_token) /\ IsSome(c.parameter_ending_token)
    /\ IsSome(c.read_from_current_directory)
    /\ IsSome(c.sync_server_url)

\* C8 as stated: a load of an existing config file never aborts on the unwrap
\* of read_from_current_directory, a successful one returns a config with
\* none of the nine fields unset, and the file is rewritten exactly when a
\* field was missing.
C8_AsStated ==
    FoundDoc =>
        /\ loadCall.reason # "unwrap"
        /\ loadCall.outcome = "ok" => AllSet(Ret)
        /\ (fs[LoadPath] # Unwrap(loadCall.before)) <=> ~AllSet(from_reader(Unwrap(loadCall.before)).val)

\* C9 as stated: on every path the returned trove_path is ./trove.yml exactly
\* when the returned flag is true and trove.yml exists in the current
\* directory.
C9_AsStated ==
    LoadOk =>
        ((Ret.trove_path = Some([abs |-> FALSE, comps |-> <<DEFAULT_HOARD_FILE>>]))
            <=> (Ret.read_from_current_directory = Some(TRUE) /\ cwdTrove))

\* the nine fields append_missing_default_values_to_config fills
BackFilled ==
    {"primary_color", "secondary_color", "tertiary_color", "command_color",
     "trove_path", "parameter_token", "parameter_ending_token",
     "read_from_current_directory", "sync_server_url"}

\* the call found field f missing and wrote it to the config file
FilledByLoad(f) ==
    /\ FoundDoc
    /\ fs[LoadPath] # Unwrap(loadCall.before)
    /\ ~IsSome(BeforeDoc[f])
    /\ IsSome(Persisted[f])

\* the value HoardConfig::new gives field f for the config directory
DefaultOf(f) == HoardConfigNew(Unwrap(Parent(LoadPath)))[f]

\* C11 as stated: each of the nine fields that is filled because it was
\* missing gets the value HoardConfig::default() gives it (trove_path as in
\* HoardConfig::new for the config directory), read_from_current_directory
\* included.
C11_AsStated ==
    \A f \in BackFilled : FilledByLoad(f) => Persisted[f] = DefaultOf(f)

\* the eight fields other than read_from_current_directory get their default
C11_OtherEight ==
    \A f \in BackFilled \ {"read_from_current_directory"} :
        FilledByLoad(f) => Persisted[f] = DefaultOf(f)

\* a missing read_from_current_directory is filled with false
C11_FlagFilledFalse ==
    FilledByLoad("read_from_current_directory")
        => Persisted.read_from_current_directory = Some(FALSE)

\* ------------------------------------------------- save_parameter_token

SaveDone == loadCall.op = "save"
SavePath == [loadCall.dir EXCEPT !.comps = @ \o <<DEFAULT_HOARD_CONFIG_FILE>>]

\* C7: save_parameter_token returning true has written to <dir>/config.yml a
\* config whose parameter_token is t and whose other fields are those of the
\* given config; the config the program holds is as before; and the call
\* returns true for an existing directory whatever t is, the ending token
\* included.
C7_SaveParameterToken ==
    SaveDone =>
        /\ loadCall.outcome = "true" =>
              /\ SavePath \in DOMAIN fs
              /\ from_reader(fs[SavePath])
                    = Ok([loadCall.given EXCEPT !.parameter_token = Some(loadCall.token)])
              /\ config = loadCall.held
        /\ loadCall.dir \in dirs => loadCall.outcome = "true"

\* a save of a token equal to the ending token of the given config, which
\* changed the token
C7_Witness ==
    /\ SaveDone /\ loadCall.outcome = "true"
    /\ loadCall.given.parameter_ending_token = Some(loadCall.token)
    /\ loadCall.given.parameter_token # Some(loadCall.token)
    /\ from_reader(fs[SavePath]).val.parameter_token = Some(loadCall.token)

\* ------------------------------------------------------------------ draw

\* the closure of draw ran to its end
Rendered == drawn.outcome = "ok" \/ (drawn.outcome = "err" /\ drawn.io = "flush")
Pre == drawn.pre
\* the selected index designates an entry of the list draw was given
Designates(a) == Unwrap(a.command_list) < Len(a.commands)
LastIndex(a) == IF a.commands = <<>> THEN 0 ELSE Len(a.commands) - 1

\* C3: a render cycle moves a selection that designates no entry of the list
\* to the last index of the list, or to 0 if the list is empty, and after
\* every render cycle the selection is a valid index of the list, or 0 when
\* the list is empty.
C3_SelectionValid ==
    Rendered =>
        /\ IsSome(app.command_list)
        /\ Unwrap(app.command_list) >= 0
        /\ app.commands # <<>> => Unwrap(app.command_list) < Len(app.commands)
        /\ app.commands = <<>> => Unwrap(app.command_list) = 0
        /\ ~Designates(Pre) => Unwrap(app.command_list) = LastIndex(Pre)

\* a selection past the end of a list of two that was moved to the last index
C3_Witness ==
    /\ Rendered
    /\ Len(Pre.commands) = 2
    /\ Unwrap(Pre.command_list) >= 2
    /\ app.command_list = Some(1)

\* C4 as stated: draw leaves every component of the State unchanged.
C4_AsStated == drawn.outcome = "ok" => app = Pre

\* C4 amended: draw leaves every component of the State unchanged but the
\* selected index, which it changes only when the selection designates no
\* entry of the list or an entry whose name is empty, and then to the last
\* index of the list (0 for an empty list).
C4_Amended ==
    drawn.outcome # "none" =>
        /\ app = [Pre EXCEPT !.command_list = app.command_list]
        /\ app.command_list # Pre.command_list =>
              /\ ~Designates(Pre) \/ Pre.commands[Unwrap(Pre.command_list) + 1].name = ""
              /\ app.command_list = Some(LastIndex(Pre))

\* a draw that moved the selection
C4_Witness ==
    /\ drawn.outcome = "ok"
    /\ app.command_list # Pre.command_list
    /\ app.commands = Pre.commands /\ app.control = Pre.control

\* the render step moved the selection
SelectionMoved == Rendered /\ app.command_list # Pre.command_list
\* the entry of the list the selection designated when draw was called
PreEntry == Pre.commands[Unwrap(Pre.command_list) + 1]

\* C12 as stated: the render step changes the selection only if the selected
\* index is past the last index of the list; a selection that designates an
\* entry, an entry with an empty name included, is left unchanged.
C12_AsStated == SelectionMoved => ~Designates(Pre)

\* a selection that designates an entry with a name is left unchanged
C12_NamedEntryKept ==
    (Rendered /\ Designates(Pre) /\ PreEntry.name # "")
        => app.command_list = Pre.command_list

\* a selection that designates an entry with an empty name which is not the
\* last one is moved to the last index
C12_UnnamedEntryMoved ==
    (Rendered /\ Designates(Pre) /\ PreEntry.name = "")
        => app.command_list = Some(LastIndex(Pre))

Normal == [r |-> 242, g |-> 229, b |-> 188]
Highlighted == [r |-> 181, g |-> 118, b |-> 20]
Frame == drawn.frame
\* the entry whose fields the detail panes show: the one the selection
\* designated when draw was called, the empty entry if it designated none
Shown ==
    IF Designates(Pre) THEN Pre.commands[Unwrap(Pre.command_list) + 1]
    ELSE [name |-> "", command |-> "", tags |-> "", description |-> ""]
Names == [i \in 1..Len(Pre.commands) |-> Pre.commands[i].name]
PaneColor(pane) ==
    CASE pane = "Name" -> Frame.list.color
      [] pane = "Command" -> Frame.command.color
      [] pane = "Tags" -> Frame.tags.color
      [] pane = "Description" -> Frame.description.color
OutsideEdit ==
    /\ \A pane \in EditSelections : PaneColor(pane) = Normal
    /\ Frame.list.items = Names
    /\ Frame.command.text = Shown.command
    /\ Frame.tags.text = Shown.tags
    /\ Frame.description.text = Shown.description
OneHighlighted ==
    \A pane \in EditSelections :
        PaneColor(pane) = (IF pane = Pre.edit_selection THEN Highlighted ELSE Normal)
DetailPanesInEdit ==
    /\ Frame.command.text
          = (IF Pre.edit_selection = "Command" THEN Pre.string_to_edit ELSE Shown.command)
    /\ Frame.tags.text = (IF Pre.edit_selection = "Tags" THEN Pre.string_to_edit ELSE Shown.tags)
    /\ Frame.description.text
          = (IF Pre.edit_selection = "Description" THEN Pre.string_to_edit
             ELSE Shown.description)

\* C10 as stated: outside Edit mode every pane has the normal color and shows
\* the committed values; in Edit mode exactly the pane of editField is
\* highlighted and shows editBuffer in place of the committed value, the
\* Name pane included.
C10_AsStated ==
    drawn.outcome = "ok" =>
        /\ Pre.control # "Edit" => OutsideEdit
        /\ Pre.control = "Edit" =>
              /\ OneHighlighted
              /\ DetailPanesInEdit
              /\ (Pre.edit_selection = "Name" /\ Designates(Pre))
                    => Frame.list.items[Unwrap(Pre.command_list) + 1] = Pre.string_to_edit
              /\ Pre.edit_selection # "Name" => Frame.list.items = Names

\* C10 amended: outside Edit mode every pane has the normal color and shows
\* the committed values; in Edit mode exactly the pane of editField is
\* highlighted, and when editField is Command, Tags or Description that pane
\* shows editBuffer in place of the committed value while the other panes
\* show the committed values; the Name pane, the command list, shows the
\* names of the entries in every mode.
C10_Amended ==
    drawn.outcome = "ok" =>
        /\ Pre.control # "Edit" => OutsideEdit
        /\ Pre.control = "Edit" =>
              /\ OneHighlighted
              /\ DetailPanesInEdit
              /\ Frame.list.items = Names

\* a frame of Edit mode whose Command pane shows the buffer and not the
\* command of the selected entry
C10_Witness ==
    /\ drawn.outcome = "ok"
    /\ Pre.control = "Edit" /\ Pre.edit_selection = "Command"
    /\ Designates(Pre) /\ Shown.command # Pre.string_to_edit
    /\ Frame.command.text = Pre.string_to_edit
    /\ Frame.command.color = Highlighted

\* ------------------------------------------------ get_hoard_config_path

PathDone == pathCall.state = "done"
HomeDefault ==
    [abs |-> TRUE,
     comps |-> <<<<"h">>, <<".", "c", "o", "n", "f", "i", "g">>, <<"h", "o", "a", "r", "d">>,
                 DEFAULT_HOARD_CONFIG_FILE>>]
RawSet == env.set /\ env.unicode /\ env.val # <<>>
RawPath == PathFrom(env.val)

Usable == env.set /\ env.unicode /\ full(env.val, home).ok /\ full(env.val, home).val # <<>>
UsablePath == PathFrom(full(env.val, home).val)

====
